---------------------------- MODULE Spec2Model ----------------------------
(***************************************************************************)
(* Loan engine: the loan lifecycle (proposed -> approved -> invested ->    *)
(* disbursed) and the investment ledger, as concurrent HTTP requests       *)
(* running against one SQLite store.                                       *)
(*                                                                         *)
(* Every repository method is one auto-committed SQL statement on the      *)
(* shared *sql.DB (internal/repository/loan_repository.go): there is no    *)
(* transaction and no lock, so a request is a sequence of atomic storage   *)
(* steps that interleaves freely with the steps of other requests.         *)
(* Amounts are float64 in the source and are modelled as integers.         *)
(***************************************************************************)
EXTENDS Integers, Sequences, FiniteSets, TLC

(* ------------------------------ bounds -------------------------------- *)
MaxLoans == 1
MaxCalls == 3
MaxFaults == 1

Threads == {"r1", "r2"}
Principals == {2}
Amounts == {1, 2, 3}
Investors == {"a@x.io", "b@x.io"}
Borrowers == {"B1"}

\* The largest rate and the largest ROI a create request may carry.
MaxRate == 100
MaxROI == 100

\* The scheme an agreement letter link starts with, and two links, as their
\* characters.
LinkPrefix == <<"h", "t", "t", "p">>
HttpLink == <<"h", "t", "t", "p", ":", "a">>
FileLink == <<"f", "i", "l", "e", ":", "a">>

\* The JSON bodies of POST /api/loans: the well-formed ones (rate and ROI at
\* their largest), and bodies with one field out of its range each.
CreateLoanRequests ==
    {[borrower |-> b, principal |-> p, rate |-> MaxRate, roi |-> MaxROI,
      link |-> HttpLink] : b \in Borrowers, p \in Principals}
    \cup {[borrower |-> "B1", principal |-> 0, rate |-> 5, roi |-> 5,
           link |-> HttpLink],
          [borrower |-> "B1", principal |-> -1, rate |-> 5, roi |-> 5,
           link |-> HttpLink],
          [borrower |-> "B1", principal |-> 2, rate |-> 0, roi |-> 5,
           link |-> HttpLink],
          [borrower |-> "B1", principal |-> 2, rate |-> MaxRate + 1,
           roi |-> 5, link |-> HttpLink],
          [borrower |-> "B1", principal |-> 2, rate |-> 5, roi |-> 0,
           link |-> HttpLink],
          [borrower |-> "B1", principal |-> 2, rate |-> 5,
           roi |-> MaxROI + 1, link |-> HttpLink],
          [borrower |-> "B1", principal |-> 2, rate |-> 5, roi |-> 5,
           link |-> FileLink],
          [borrower |-> "", principal |-> 2, rate |-> 5, roi |-> 5,
           link |-> HttpLink]}

\* A date text is the layout it is written in and the instant it denotes.
LayoutDateTime == "2006-01-02 15:04:05"
LayoutRFC3339 == "2006-01-02T15:04:05Z07:00"

\* The seconds of the clock (time.Now().Unix()) at which files are uploaded.
Times == {1}

\* The multipart form of a staff request: the uploaded file, the employee id
\* as its characters and the date text.
Forms ==
    {[doc |-> "file1", employee |-> <<"E", "M", "1">>,
      date |-> [layout |-> LayoutDateTime, t |-> 1]],
     [doc |-> "file2", employee |-> <<"E", "M", "2">>,
      date |-> [layout |-> LayoutDateTime, t |-> 2]],
     [doc |-> "file1", employee |-> <<"E", "1">>,
      date |-> [layout |-> LayoutDateTime, t |-> 1]],
     [doc |-> "file2", employee |-> <<>>,
      date |-> [layout |-> LayoutDateTime, t |-> 2]],
     [doc |-> "file1", employee |-> <<"E", "M", "1">>,
      date |-> [layout |-> LayoutRFC3339, t |-> 1]]}

\* What a staff request hands to the usecase: the stored file's path, the
\* employee id and the parsed date.
Evidences ==
    {[doc |-> "file1", employee |-> <<"E", "M", "1">>, date |-> 1],
     [doc |-> "file2", employee |-> <<"E", "M", "2">>, date |-> 2]}

\* The query parameters of GET /api/loans as the handler parses them: an
\* absent parameter is Nil (the empty sequence).
Filters ==
    {[state |-> <<>>, borrower |-> <<>>, limit |-> <<>>, offset |-> <<>>],
     [state |-> <<"approved">>, borrower |-> <<>>, limit |-> <<>>,
      offset |-> <<>>],
     [state |-> <<>>, borrower |-> <<"B1">>, limit |-> <<1>>,
      offset |-> <<>>],
     [state |-> <<>>, borrower |-> <<"B2">>, limit |-> <<>>, offset |-> <<>>],
     [state |-> <<>>, borrower |-> <<>>, limit |-> <<2>>, offset |-> <<1>>],
     [state |-> <<>>, borrower |-> <<>>, limit |-> <<>>, offset |-> <<0>>]}

\* loans, investments: the two tables.  outbox: the calls made to the email
\* service.  visited: for every loan the states its row has held, in the
\* order they were first written.  call: the request each handler goroutine
\* runs.  ncalls, faults: how many requests were made, how many storage or
\* delivery calls failed.
VARIABLES loans, investments, outbox, visited, call, ncalls, faults, uploads

vars ==
    <<loans, investments, outbox, visited, call, ncalls, faults, uploads>>

(* ------------------------------ entity -------------------------------- *)
StateProposed == "proposed"
StateApproved == "approved"
StateInvested == "invested"
StateDisbursed == "disbursed"

LoanStates == {StateProposed, StateApproved, StateInvested, StateDisbursed}

\* Position of a state in the lifecycle order.
Rank(s) ==
    CASE s = StateProposed -> 0
      [] s = StateApproved -> 1
      [] s = StateInvested -> 2
      [] s = StateDisbursed -> 3

\* A nil pointer field is the empty sequence, a set one a one-element sequence.
Nil == <<>>

NewLoan(id, borrower, principal, rate, roi) ==
    [id |-> id, borrower |-> borrower, principal |-> principal,
     rate |-> rate, roi |-> roi,
     state |-> StateProposed, approval |-> Nil, disbursement |-> Nil]

CanBeApprovedLax(l) == l.state # StateDisbursed

CanBeApproved(l) == l.state = StateProposed

ApproveNoEvidence(l, ev) == [l EXCEPT !.state = StateApproved]

Approve(l, ev) ==
    [l EXCEPT !.state = StateApproved, !.approval = <<ev>>]

CanReceiveInvestmentLax(l) == l.state # StateDisbursed

CanReceiveInvestment(l) == l.state = StateApproved \/ l.state = StateInvested

\* string(rune(remaining)): the one character whose code point is the
\* truncated number (U+FFFD outside the valid code points), as its code points.
MaxRune == 1114111
SurrogateMin == 55296
SurrogateMax == 57343
ReplacementChar == 65533

RuneString(n) ==
    IF n < 0 \/ n > MaxRune \/ (n >= SurrogateMin /\ n <= SurrogateMax)
    THEN <<ReplacementChar>>
    ELSE <<n>>

\* The number a reader of the message gets from the text after "remaining ":
\* decimal digits are the code points 48..57; anything else is no number (-1).
Digits == 48..57

RECURSIVE ParseDecimal(_)
ParseDecimal(s) ==
    IF s = <<>> THEN -1
    ELSE LET c == s[Len(s)] IN
         IF c \notin Digits THEN -1
         ELSE IF Len(s) = 1 THEN c - 48
         ELSE LET hi == ParseDecimal(SubSeq(s, 1, Len(s) - 1)) IN
              IF hi < 0 THEN -1 ELSE 10 * hi + (c - 48)

\* The error ValidateInvestmentAmount returns: its kind and the text it
\* carries for the remaining amount.
NoError == [kind |-> "nil", remaining |-> <<>>]

ValidateInvestmentAmountStrict(l, amount, currentTotalInvestment) ==
    IF amount <= 0
    THEN [kind |-> "NonPositiveAmount", remaining |-> <<>>]
    ELSE IF currentTotalInvestment + amount >= l.principal
    THEN [kind |-> "OverfundingRejected",
          remaining |-> RuneString(l.principal - currentTotalInvestment)]
    ELSE NoError

ValidateInvestmentAmount(l, amount, currentTotalInvestment) ==
    IF amount <= 0
    THEN [kind |-> "NonPositiveAmount", remaining |-> <<>>]
    ELSE IF currentTotalInvestment + amount > l.principal
    THEN [kind |-> "OverfundingRejected",
          remaining |-> RuneString(l.principal - currentTotalInvestment)]
    ELSE NoError

MarkAsInvested(l) ==
    IF l.state = StateApproved THEN [l EXCEPT !.state = StateInvested] ELSE l

CanBeDisbursedLax(l) == l.state = StateInvested \/ l.state = StateApproved

CanBeDisbursed(l) == l.state = StateInvested

Disburse(l, ev) ==
    [l EXCEPT !.state = StateDisbursed, !.disbursement = <<ev>>]

IsFullyInvestedLax(l, totalInvestment) == totalInvestment <= l.principal

IsFullyInvested(l, totalInvestment) == totalInvestment = l.principal

GetRemainingAmountSwapped(l, totalInvestment) ==
    LET remaining == totalInvestment - l.principal IN
    IF remaining < 0 THEN 0 ELSE remaining

GetRemainingAmount(l, totalInvestment) ==
    LET remaining == l.principal - totalInvestment IN
    IF remaining < 0 THEN 0 ELSE remaining

(* ---------------------------- repository ------------------------------ *)
\* loans is the loans table, row i holding the loan with id i
\* (INTEGER PRIMARY KEY AUTOINCREMENT); investments is the investments table
\* in insertion order.
LoanExists(id) == id \in 1..Len(loans)

GetByID(id) == loans[id]

GetByIDErrorRaw(id) ==
    IF LoanExists(id) THEN "nil" ELSE "PersistenceFailure"

\* The error of GetByID: sql.ErrNoRows becomes "loan not found", which the
\* handlers answer with 404.
GetByIDError(id) == IF LoanExists(id) THEN "nil" ELSE "NotFound"

UpdateEveryRow(l) == [i \in 1..Len(loans) |-> [l EXCEPT !.id = i]]

\* UPDATE loans SET <every column> WHERE id = ?: a whole-record replace.
Update(l) == [loans EXCEPT ![l.id] = l]

RECURSIVE SumAmounts(_, _)
SumAmounts(invs, id) ==
    IF invs = <<>> THEN 0
    ELSE (IF Head(invs).loanID = id THEN Head(invs).amount ELSE 0)
         + SumAmounts(Tail(invs), id)

\* SELECT COALESCE(SUM(amount), 0) FROM investments WHERE loan_id = ?
GetTotalByLoanID(id) == SumAmounts(investments, id)

CreateInvestmentUpsert(id, investor, amount) ==
    LET row == [id |-> Len(investments) + 1, loanID |-> id,
                investor |-> investor, amount |-> amount]
        old == {i \in 1..Len(investments) :
                  /\ investments[i].loanID = id
                  /\ investments[i].investor = investor}
    IN IF old = {} THEN Append(investments, row)
       ELSE [i \in 1..Len(investments) |->
               IF i \in old THEN [row EXCEPT !.id = i] ELSE investments[i]]

CreateInvestment(id, investor, amount) ==
    Append(investments,
           [id |-> Len(investments) + 1, loanID |-> id,
            investor |-> investor, amount |-> amount])

\* SELECT ... FROM investments WHERE loan_id = ? ORDER BY created_at
GetByLoanID(id) == SelectSeq(investments, LAMBDA i : i.loanID = id)

Reverse(s) == [i \in 1..Len(s) |-> s[Len(s) + 1 - i]]

MatchesStateOnly(l, filter) ==
    filter.state = Nil \/ l.state = filter.state[1]

Matches(l, filter) ==
    /\ filter.state = Nil \/ l.state = filter.state[1]
    /\ filter.borrower = Nil \/ l.borrower = filter.borrower[1]

\* SELECT ... FROM loans [WHERE ...] ORDER BY created_at DESC [LIMIT ?]
\* [OFFSET ?]: the newest loan first.  With an offset and no limit the
\* statement ends "... DESC OFFSET ?", which SQLite does not parse.
List(filter) ==
    IF filter.limit = Nil /\ filter.offset # Nil
    THEN [err |-> "PersistenceFailure", rows |-> <<>>]
    ELSE LET found == Reverse(SelectSeq(loans, LAMBDA l : Matches(l, filter)))
             from == IF filter.offset = Nil THEN 0 ELSE filter.offset[1]
             rest == SubSeq(found, from + 1, Len(found))
             n == IF filter.limit = Nil \/ filter.limit[1] > Len(rest)
                  THEN Len(rest) ELSE filter.limit[1]
         IN [err |-> "nil", rows |-> SubSeq(rest, 1, n)]

(* ------------------------------ delivery ------------------------------ *)
MinEmployeeIDLen == 3

\* strings.HasPrefix
HasPrefix(s, prefix) ==
    Len(s) >= Len(prefix) /\ SubSeq(s, 1, Len(prefix)) = prefix

\* The binding tags of CreateLoanRequest (required; gt=0; gt=0,lte=100) and
\* the handler's check of the link.
ValidCreateLoanRequestLax(req) ==
    /\ req.borrower # ""
    /\ req.principal > 0
    /\ req.rate > 0
    /\ req.roi > 0
    /\ req.link # <<>> /\ HasPrefix(req.link, LinkPrefix)

ValidCreateLoanRequest(req) ==
    /\ req.borrower # ""
    /\ req.principal > 0
    /\ req.rate > 0 /\ req.rate <= MaxRate
    /\ req.roi > 0 /\ req.roi <= MaxROI
    /\ req.link # <<>> /\ HasPrefix(req.link, LinkPrefix)

validateEmployeeIDAndDateFormatLax(employeeID, dateField) ==
    IF dateField.layout # LayoutDateTime
    THEN [err |-> "date", date |-> 0]
    ELSE [err |-> "nil", date |-> dateField.t]

\* The handler's check of the form fields: the error it answers with, or
\* the parsed date.
validateEmployeeIDAndDateFormat(employeeID, dateField) ==
    IF Len(employeeID) < MinEmployeeIDLen
    THEN [err |-> "employee", date |-> 0]
    ELSE IF dateField.layout # LayoutDateTime
    THEN [err |-> "date", date |-> 0]
    ELSE [err |-> "nil", date |-> dateField.t]

\* The investor emails of a loan's investments, each once, in the order of
\* their first investment.
RECURSIVE DistinctInvestors(_)
DistinctInvestors(rows) ==
    IF rows = <<>> THEN <<>>
    ELSE LET first == DistinctInvestors(SubSeq(rows, 1, Len(rows) - 1))
             who == rows[Len(rows)].investor
         IN IF \E i \in 1..Len(first) : first[i] = who
            THEN first ELSE Append(first, who)

SendLoanFullyInvestedNotificationQuiet(emails, failAt) ==
    [err |-> "nil",
     sent |-> IF failAt = 0 THEN Len(emails) ELSE failAt - 1]

\* One mail per investor email, in order; the first send that fails (the
\* failAt-th, 0 for none) ends the loop with its error.
SendLoanFullyInvestedNotification(emails, failAt) ==
    IF failAt = 0
    THEN [err |-> "nil", sent |-> Len(emails)]
    ELSE [err |-> "NotificationFailure", sent |-> failAt - 1]

(* ------------------------------ requests ------------------------------ *)
Idle ==
    [op |-> "none", pc |-> "idle", id |-> 0, loan |-> Nil,
     total |-> 0, amount |-> 0, ev |-> Nil, inv |-> 0,
     res |-> "none", remaining |-> <<>>, form |-> Nil, emails |-> <<>>,
     out |-> Nil, filter |-> Nil]

Free(t) == call[t].pc \in {"idle", "done"}

\* The request returns: its locals die with it, what it answered stays (the
\* outcome, the amount asked, the text of an overfunding error, the id of a
\* created investment).
FinishSuccessOnly(t, c, res) ==
    IF res = "Success"
    THEN call' = [call EXCEPT ![t] =
                    [Idle EXCEPT !.op = c.op, !.pc = "done", !.id = c.id,
                                 !.amount = c.amount, !.res = res,
                                 !.remaining = c.remaining, !.inv = c.inv]]
    ELSE call' = call

Finish(t, c, res) ==
    call' = [call EXCEPT ![t] =
               [Idle EXCEPT !.op = c.op, !.pc = "done", !.id = c.id,
                            !.amount = c.amount, !.res = res,
                            !.remaining = c.remaining, !.inv = c.inv]]

LoanIDs == 1..MaxLoans

Init ==
    /\ loans = <<>>
    /\ investments = <<>>
    /\ outbox = <<>>
    /\ visited = <<>>
    /\ call = [t \in Threads |-> Idle]
    /\ ncalls = 0
    /\ faults = 0
    /\ uploads = {}

NextLoanIDReused == IF loans = <<>> THEN 1 ELSE Len(loans)

\* LastInsertId of an INTEGER PRIMARY KEY AUTOINCREMENT column of a table
\* no row is ever deleted from.
NextLoanID == Len(loans) + 1

\* POST /api/loans with a body the handler accepts: one INSERT, the loan
\* gets the next id. (A body it refuses changes nothing.)
CreateLoanUpTo(n) ==
    /\ Len(loans) < n
    /\ \E req \in CreateLoanRequests :
         /\ ValidCreateLoanRequest(req)
         /\ loans' = Append(loans,
                            NewLoan(NextLoanID, req.borrower, req.principal,
                                    req.rate, req.roi))
    /\ visited' = Append(visited, <<StateProposed>>)
    /\ UNCHANGED <<investments, outbox, call, ncalls, faults, uploads>>

\* POST /api/loans on handler goroutine t, with the answer it gives: 400 for
\* a body the binding or the handler refuses, else the INSERT and 201.
CreateLoanAnswered(t, n) ==
    /\ Free(t)
    /\ \E req \in CreateLoanRequests :
         LET c == [Idle EXCEPT !.op = "create", !.pc = "done",
                               !.form = <<req>>] IN
         IF ~ValidCreateLoanRequest(req)
         THEN /\ call' = [call EXCEPT ![t] = [c EXCEPT !.res = "BadRequest"]]
              /\ UNCHANGED <<loans, visited, uploads>>
         ELSE /\ Len(loans) < n
              /\ loans' = Append(loans,
                                 NewLoan(NextLoanID, req.borrower,
                                         req.principal, req.rate, req.roi))
              /\ visited' = Append(visited, <<StateProposed>>)
              /\ call' = [call EXCEPT ![t] =
                            [c EXCEPT !.res = "Success",
                                      !.id = NextLoanID]]
    /\ UNCHANGED <<investments, outbox, ncalls, faults, uploads>>

CreateLoan == CreateLoanUpTo(MaxLoans)

\* A storage call of request t fails (I/O error, or the request's context is
\* cancelled): the request ends with the error, nothing is written.
StorageFault(t) ==
    /\ call[t].pc \in {"load", "total", "insert", "update", "recipients",
                       "list"}
    /\ faults < MaxFaults
    /\ faults' = faults + 1
    /\ Finish(t, call[t], "PersistenceFailure")
    /\ UNCHANGED <<loans, investments, outbox, visited, ncalls, uploads>>

\* The path saveUploadedFile gives an upload: the loan id of the request, the
\* subdirectory of the endpoint and the second of the clock at the upload.
FilePath(id, subdirectory, now) ==
    [loanID |-> id, dir |-> subdirectory, at |-> now]

\* os.Create and io.Copy: the file is in the store from then on; nothing in
\* the handlers removes it.
saveUploadedFile(path) == uploads \cup {path}

\* A request arrives on a free handler goroutine with its path id and body.
\* The staff handlers check the form before they call the usecase.
StartApproveOn(t, ids, n) ==
    /\ Free(t) /\ ncalls < n
    /\ \E id \in ids, form \in Forms, now \in Times :
         LET v == validateEmployeeIDAndDateFormat(form.employee, form.date)
             c == [Idle EXCEPT !.op = "approve", !.id = id]
             path == FilePath(id, "proof_pictures", now) IN
         IF v.err # "nil"
         THEN /\ call' = [call EXCEPT ![t] =
                            [c EXCEPT !.pc = "done",
                                      !.res = "InvalidEvidence",
                                      !.form = <<form>>]]
              /\ UNCHANGED uploads
         ELSE /\ uploads' = saveUploadedFile(path)
              /\ call' = [call EXCEPT ![t] =
                            [c EXCEPT !.pc = "load",
                                      !.ev = <<[doc |-> form.doc,
                                                employee |-> form.employee,
                                                date |-> v.date]>>]]
    /\ ncalls' = ncalls + 1
    /\ UNCHANGED <<loans, investments, outbox, visited, faults>>

StartApprove(t) == StartApproveOn(t, LoanIDs, MaxCalls)

StartInvestOn(t, ids, n) ==
    /\ Free(t) /\ ncalls < n
    /\ \E id \in ids, a \in Amounts :
         call' = [call EXCEPT ![t] =
                    [Idle EXCEPT !.op = "invest", !.pc = "load", !.id = id,
                                 !.amount = a]]
    /\ ncalls' = ncalls + 1
    /\ UNCHANGED <<loans, investments, outbox, visited, faults, uploads>>

StartInvest(t) == StartInvestOn(t, LoanIDs, MaxCalls)

StartDisburseOn(t, ids, n) ==
    /\ Free(t) /\ ncalls < n
    /\ \E id \in ids, form \in Forms, now \in Times :
         LET v == validateEmployeeIDAndDateFormat(form.employee, form.date)
             c == [Idle EXCEPT !.op = "disburse", !.id = id]
             path == FilePath(id, "signed_agreements", now) IN
         IF v.err # "nil"
         THEN /\ call' = [call EXCEPT ![t] =
                            [c EXCEPT !.pc = "done",
                                      !.res = "InvalidEvidence",
                                      !.form = <<form>>]]
              /\ UNCHANGED uploads
         ELSE /\ uploads' = saveUploadedFile(path)
              /\ call' = [call EXCEPT ![t] =
                            [c EXCEPT !.pc = "load",
                                      !.ev = <<[doc |-> form.doc,
                                                employee |-> form.employee,
                                                date |-> v.date]>>]]
    /\ ncalls' = ncalls + 1
    /\ UNCHANGED <<loans, investments, outbox, visited, faults>>

StartDisburse(t) == StartDisburseOn(t, LoanIDs, MaxCalls)

\* approveLoan: GetByID, then Loan.Approve on the loaded copy.
ApproveLoad(t) ==
    LET c == call[t] IN
    /\ c.op = "approve" /\ c.pc = "load"
    /\ IF GetByIDError(c.id) # "nil" THEN Finish(t, c, GetByIDError(c.id))
       ELSE LET l == GetByID(c.id)
                d == [c EXCEPT !.loan = <<l>>] IN
            IF ~CanBeApproved(l) THEN Finish(t, d, "InvalidTransition")
            ELSE call' = [call EXCEPT ![t] =
                            [d EXCEPT !.loan = <<Approve(l, c.ev[1])>>,
                                      !.pc = "update"]]
    /\ UNCHANGED <<loans, investments, outbox, visited, ncalls, faults,
                   uploads>>

\* disburseLoan: GetByID, then Loan.Disburse on the loaded copy.
DisburseLoad(t) ==
    LET c == call[t] IN
    /\ c.op = "disburse" /\ c.pc = "load"
    /\ IF GetByIDError(c.id) # "nil" THEN Finish(t, c, GetByIDError(c.id))
       ELSE LET l == GetByID(c.id)
                d == [c EXCEPT !.loan = <<l>>] IN
            IF ~CanBeDisbursed(l) THEN Finish(t, d, "InvalidTransition")
            ELSE call' = [call EXCEPT ![t] =
                            [d EXCEPT !.loan = <<Disburse(l, c.ev[1])>>,
                                      !.pc = "update"]]
    /\ UNCHANGED <<loans, investments, outbox, visited, ncalls, faults,
                   uploads>>

\* approveLoan / disburseLoan / the promotion of investInLoan: persist the
\* request's copy of the loan.  investInLoan goes on to notify.
UpdateLoan(t) ==
    LET c == call[t]
        s == c.loan[1].state IN
    /\ c.pc = "update"
    /\ loans' = Update(c.loan[1])
    /\ visited' = [visited EXCEPT ![c.id] =
                     IF \E i \in 1..Len(@) : @[i] = s THEN @
                     ELSE Append(@, s)]
    /\ IF c.op = "invest"
       THEN call' = [call EXCEPT ![t] = [c EXCEPT !.pc = "recipients"]]
       ELSE Finish(t, c, "Success")
    /\ UNCHANGED <<investments, outbox, ncalls, faults, uploads>>

\* investInLoan: GetByID, then Loan.CanReceiveInvestment.
InvestLoad(t) ==
    LET c == call[t] IN
    /\ c.op = "invest" /\ c.pc = "load"
    /\ IF GetByIDError(c.id) # "nil" THEN Finish(t, c, GetByIDError(c.id))
       ELSE LET l == GetByID(c.id)
                d == [c EXCEPT !.loan = <<l>>] IN
            IF ~CanReceiveInvestment(l) THEN Finish(t, d, "InvalidState")
            ELSE call' = [call EXCEPT ![t] = [d EXCEPT !.pc = "total"]]
    /\ UNCHANGED <<loans, investments, outbox, visited, ncalls, faults,
                   uploads>>

\* investInLoan: GetTotalByLoanID, then Loan.ValidateInvestmentAmount.
InvestTotal(t) ==
    LET c == call[t]
        total == GetTotalByLoanID(c.id)
        err == ValidateInvestmentAmount(c.loan[1], c.amount, total)
        d == [c EXCEPT !.total = total, !.remaining = err.remaining] IN
    /\ c.op = "invest" /\ c.pc = "total"
    /\ IF err.kind # "nil" THEN Finish(t, d, err.kind)
       ELSE call' = [call EXCEPT ![t] = [d EXCEPT !.pc = "insert"]]
    /\ UNCHANGED <<loans, investments, outbox, visited, ncalls, faults,
                   uploads>>

\* investInLoan: InvestmentRepository.Create, then the promotion decision on
\* the total this request computed: Loan.IsFullyInvested, Loan.MarkAsInvested.
\* The investor email of the request body is read by no earlier step, so it
\* is drawn here, where it is first used.
InvestInsert(t) ==
    LET c == call[t]
        l == c.loan[1]
        d == [c EXCEPT !.inv = Len(investments) + 1] IN
    /\ c.op = "invest" /\ c.pc = "insert"
    /\ \E who \in Investors :
         investments' = CreateInvestment(c.id, who, c.amount)
    /\ IF IsFullyInvested(l, c.total + c.amount) /\ l.state = StateApproved
       THEN call' = [call EXCEPT ![t] =
                       [d EXCEPT !.loan = <<MarkAsInvested(l)>>,
                                 !.pc = "update"]]
       ELSE Finish(t, d, "Success")
    /\ UNCHANGED <<loans, outbox, visited, ncalls, faults, uploads>>

\* investInLoan after a promotion: GetByLoanID gives the investor emails.
InvestRecipients(t) ==
    LET c == call[t] IN
    /\ c.op = "invest" /\ c.pc = "recipients"
    /\ call' = [call EXCEPT ![t] =
                  [c EXCEPT !.emails = DistinctInvestors(GetByLoanID(c.id)),
                            !.pc = "notify"]]
    /\ UNCHANGED <<loans, investments, outbox, visited, ncalls, faults,
                   uploads>>

\* investInLoan after a promotion: the call to the email service.  A send
\* can fail (SendGrid); the error is returned to the caller.
InvestNotify(t) ==
    LET c == call[t] IN
    /\ c.op = "invest" /\ c.pc = "notify"
    /\ \E failAt \in 0..Len(c.emails) :
         LET r == SendLoanFullyInvestedNotification(c.emails, failAt) IN
         /\ failAt # 0 => faults < MaxFaults
         /\ faults' = IF failAt # 0 THEN faults + 1 ELSE faults
         /\ outbox' = Append(outbox, [loanID |-> c.id, emails |-> c.emails,
                                      sent |-> r.sent])
         /\ Finish(t, c, IF r.err = "nil" THEN "Success" ELSE r.err)
    /\ UNCHANGED <<loans, investments, visited, ncalls, uploads>>

StartGetOn(t, ids, n) ==
    /\ Free(t) /\ ncalls < n
    /\ \E id \in ids :
         call' = [call EXCEPT ![t] =
                    [Idle EXCEPT !.op = "get", !.pc = "load", !.id = id]]
    /\ ncalls' = ncalls + 1
    /\ UNCHANGED <<loans, investments, outbox, visited, faults, uploads>>

StartGet(t) == StartGetOn(t, LoanIDs, MaxCalls)

\* getLoanSummary: GetByID.
GetLoad(t) ==
    LET c == call[t] IN
    /\ c.op = "get" /\ c.pc = "load"
    /\ IF GetByIDError(c.id) # "nil" THEN Finish(t, c, GetByIDError(c.id))
       ELSE call' = [call EXCEPT ![t] =
                       [c EXCEPT !.loan = <<GetByID(c.id)>>, !.pc = "list"]]
    /\ UNCHANGED <<loans, investments, outbox, visited, ncalls, faults,
                   uploads>>

\* getLoanSummary: GetByLoanID, then the summary of the rows read.
GetList(t) ==
    LET c == call[t]
        l == c.loan[1]
        rows == GetByLoanID(c.id)
        total == SumAmounts(rows, c.id) IN
    /\ c.op = "get" /\ c.pc = "list"
    /\ call' = [call EXCEPT ![t] =
                  [Idle EXCEPT !.op = "get", !.pc = "done", !.id = c.id,
                     !.res = "Success",
                     !.out = <<[state |-> l.state,
                                principal |-> l.principal,
                                totalInvested |-> total,
                                remainingAmount |->
                                    GetRemainingAmount(l, total),
                                investmentCount |-> Len(rows)]>>]]
    /\ UNCHANGED <<loans, investments, outbox, visited, ncalls, faults,
                   uploads>>

\* GET /api/loans: the handler parses the query, the one SELECT of List
\* answers it.  Of the loans returned the request keeps the ids, in order.
ListLoansUpTo(t, n) ==
    /\ Free(t) /\ ncalls < n
    /\ \E filter \in Filters :
         LET r == List(filter) IN
         call' = [call EXCEPT ![t] =
                    [Idle EXCEPT !.op = "list", !.pc = "done",
                       !.filter = <<filter>>,
                       !.res = IF r.err = "nil" THEN "Success" ELSE r.err,
                       !.out = [i \in 1..Len(r.rows) |-> r.rows[i].id]]]
    /\ ncalls' = ncalls + 1
    /\ UNCHANGED <<loans, investments, outbox, visited, faults, uploads>>

ListLoans(t) == ListLoansUpTo(t, MaxCalls)

Next ==
    \/ CreateLoan
    \/ \E t \in Threads : StartApprove(t)
    \/ \E t \in Threads : StartInvest(t)
    \/ \E t \in Threads : StartDisburse(t)
    \/ \E t \in Threads : ApproveLoad(t)
    \/ \E t \in Threads : DisburseLoad(t)
    \/ \E t \in Threads : UpdateLoan(t)
    \/ \E t \in Threads : InvestLoad(t)
    \/ \E t \in Threads : InvestTotal(t)
    \/ \E t \in Threads : InvestInsert(t)
    \/ \E t \in Threads : InvestRecipients(t)
    \/ \E t \in Threads : InvestNotify(t)
    \/ \E t \in Threads : StartGet(t)
    \/ \E t \in Threads : GetLoad(t)
    \/ \E t \in Threads : GetList(t)
    \/ \E t \in Threads : ListLoans(t)
    \/ \E t \in Threads : StorageFault(t)

Spec == Init /\ [][Next]_vars

\* The same requests against a store of one loan more, with one request
\* fewer.
LoanIDsTwo == 1..(MaxLoans + 1)

NextTwo ==
    \/ CreateLoanUpTo(MaxLoans + 1)
    \/ \E t \in Threads : StartApproveOn(t, LoanIDsTwo, MaxCalls - 1)
    \/ \E t \in Threads : StartInvestOn(t, LoanIDsTwo, MaxCalls - 1)
    \/ \E t \in Threads : StartDisburseOn(t, LoanIDsTwo, MaxCalls - 1)
    \/ \E t \in Threads : StartGetOn(t, LoanIDsTwo, MaxCalls - 1)
    \/ \E t \in Threads : ListLoansUpTo(t, MaxCalls - 1)
    \/ \E t \in Threads : ApproveLoad(t)
    \/ \E t \in Threads : DisburseLoad(t)
    \/ \E t \in Threads : UpdateLoan(t)
    \/ \E t \in Threads : InvestLoad(t)
    \/ \E t \in Threads : InvestTotal(t)
    \/ \E t \in Threads : InvestInsert(t)
    \/ \E t \in Threads : InvestRecipients(t)
    \/ \E t \in Threads : InvestNotify(t)
    \/ \E t \in Threads : GetLoad(t)
    \/ \E t \in Threads : GetList(t)
    \/ \E t \in Threads : StorageFault(t)

SpecTwo == Init /\ [][NextTwo]_vars

\* The mutating requests alone, one request more of them.
NextWrites ==
    \/ CreateLoanUpTo(MaxLoans)
    \/ \E t \in Threads : StartApproveOn(t, LoanIDs, MaxCalls + 1)
    \/ \E t \in Threads : StartInvestOn(t, LoanIDs, MaxCalls + 1)
    \/ \E t \in Threads : StartDisburseOn(t, LoanIDs, MaxCalls + 1)
    \/ \E t \in Threads : ApproveLoad(t)
    \/ \E t \in Threads : DisburseLoad(t)
    \/ \E t \in Threads : UpdateLoan(t)
    \/ \E t \in Threads : InvestLoad(t)
    \/ \E t \in Threads : InvestTotal(t)
    \/ \E t \in Threads : InvestInsert(t)
    \/ \E t \in Threads : InvestRecipients(t)
    \/ \E t \in Threads : InvestNotify(t)
    \/ \E t \in Threads : StorageFault(t)

SpecWrites == Init /\ [][NextWrites]_vars

\* The mutating requests with the create requests answered on a handler
\* goroutine, and one request fewer.
NextCreate ==
    \/ \E t \in Threads : CreateLoanAnswered(t, MaxLoans)
    \/ \E t \in Threads : StartApproveOn(t, LoanIDs, MaxCalls - 1)
    \/ \E t \in Threads : StartInvestOn(t, LoanIDs, MaxCalls - 1)
    \/ \E t \in Threads : StartDisburseOn(t, LoanIDs, MaxCalls - 1)
    \/ \E t \in Threads : ApproveLoad(t)
    \/ \E t \in Threads : DisburseLoad(t)
    \/ \E t \in Threads : UpdateLoan(t)
    \/ \E t \in Threads : InvestLoad(t)
    \/ \E t \in Threads : InvestTotal(t)
    \/ \E t \in Threads : InvestInsert(t)
    \/ \E t \in Threads : InvestRecipients(t)
    \/ \E t \in Threads : InvestNotify(t)
    \/ \E t \in Threads : StorageFault(t)

SpecCreate == Init /\ [][NextCreate]_vars

\* The admission check on its own: an investInLoan request that has loaded
\* an approved loan and is about to read the total and call
\* Loan.ValidateInvestmentAmount, for every principal, every total already
\* invested up to the principal and every amount from below zero to above the
\* headroom.
AdmitPrincipals == {1, 2, 3}
AdmitAmounts == {-1, 0, 1, 2, 3, 4}

InitAdmit ==
    \E p \in AdmitPrincipals, ev \in Evidences :
    \E cur \in 0..p, a \in AdmitAmounts, t \in Threads :
        LET l == Approve(NewLoan(1, "B1", p, MaxRate, MaxROI), ev) IN
        /\ loans = <<l>>
        /\ investments =
             IF cur = 0 THEN <<>>
             ELSE <<[id |-> 1, loanID |-> 1, investor |-> "a@x.io",
                     amount |-> cur]>>
        /\ outbox = <<>>
        /\ visited = <<<<StateProposed, StateApproved>>>>
        /\ call = [u \in Threads |->
                     IF u = t
                     THEN [Idle EXCEPT !.op = "invest", !.pc = "total",
                                       !.id = 1, !.amount = a, !.loan = <<l>>]
                     ELSE Idle]
        /\ ncalls = 2
        /\ faults = 0
        /\ uploads \in {{FilePath(1, "proof_pictures", now)} : now \in Times}

NextAdmit ==
    \/ \E t \in Threads : InvestTotal(t)
    \/ \E t \in Threads : InvestInsert(t)
    \/ \E t \in Threads : UpdateLoan(t)
    \/ \E t \in Threads : InvestRecipients(t)
    \/ \E t \in Threads : InvestNotify(t)

SpecAdmit == InitAdmit /\ [][NextAdmit]_vars

(* ------------------------------ claims -------------------------------- *)
Persisted == 1..Len(loans)

Total(id) == GetTotalByLoanID(id)

Returned(t, op) == call[t].op = op /\ call[t].pc = "done"

\* Request t takes the step that leaves program point pc without a storage
\* error.
Steps(t, op, pc) ==
    /\ call[t].op = op /\ call[t].pc = pc
    /\ call'[t] # call[t]
    /\ call'[t].res # "PersistenceFailure"

\* C1: the amounts of a loan's persisted investments never sum to more than
\* the loan's principal, whatever the interleaving of investInLoan requests.
C1_FundingCeiling == \A id \in Persisted : Total(id) <= loans[id].principal

\* C2: no write to the store replaces a loan's state with a lower one in the
\* order proposed < approved < invested < disbursed.
C2_ForwardOnly ==
    [][\A id \in Persisted :
         Rank(loans'[id].state) >= Rank(loans[id].state)]_vars

C4_ExactlyOneAdmitted ==
    \A t1, t2 \in Threads :
        (/\ t1 # t2
         /\ Returned(t1, "invest") /\ Returned(t2, "invest")
         /\ call[t1].id = call[t2].id
         /\ call[t1].id \in Persisted
         /\ {call[t1].res, call[t2].res}
              \subseteq {"Success", "OverfundingRejected"}
         /\ \A i \in 1..Len(investments) :
              investments[i].loanID = call[t1].id
                => i \in {call[t1].inv, call[t2].inv}
         /\ call[t1].amount <= loans[call[t1].id].principal
         /\ call[t2].amount <= loans[call[t1].id].principal
         /\ call[t1].amount + call[t2].amount > loans[call[t1].id].principal)
        => {call[t1].res, call[t2].res} = {"Success", "OverfundingRejected"}

\* C5: an investInLoan request that fails after its investment was inserted
\* leaves no state in which the loan's investments sum to the principal while
\* the persisted state is still approved.
C5_InsertAndPromotionAtomic ==
    \A t \in Threads :
        (/\ Returned(t, "invest")
         /\ call[t].res = "PersistenceFailure"
         /\ call[t].inv # 0)
        => ~(/\ Total(call[t].id) = loans[call[t].id].principal
             /\ loans[call[t].id].state = StateApproved)

C8_ApprovesSerialized ==
    /\ [](\A t1, t2 \in Threads :
            (/\ t1 # t2 /\ ncalls = 2
             /\ Returned(t1, "approve") /\ Returned(t2, "approve")
             /\ call[t1].id = call[t2].id
             /\ {call[t1].res, call[t2].res}
                  \subseteq {"Success", "InvalidTransition"})
            => {call[t1].res, call[t2].res} = {"Success", "InvalidTransition"})
    /\ [][\A id \in Persisted :
            loans[id].approval # Nil
              => loans'[id].approval = loans[id].approval]_vars

C10_OverfundingCarriesHeadroom ==
    [][\A t \in Threads :
         (/\ Steps(t, "invest", "total")
          /\ call[t].amount > 0
          /\ Total(call[t].id) + call[t].amount > call[t].loan[1].principal)
         => /\ call'[t].pc = "done"
            /\ call'[t].res = "OverfundingRejected"
            /\ ParseDecimal(call'[t].remaining)
                 = call[t].loan[1].principal - Total(call[t].id)
            /\ investments' = investments
            /\ loans' = loans]_vars
\* The investor emails of the persisted investments of loan id.
InvestorsOf(id) ==
    {investments[i].investor :
       i \in {j \in 1..Len(investments) : investments[j].loanID = id}}

Range(s) == {s[i] : i \in 1..Len(s)}

\* C11: the email service is called at most once per loan, only by the
\* investInLoan request that promoted the loan, with every investor email of
\* the loan's investments exactly once; an investment that does not promote
\* sends nothing.
C11_NotifiedOncePerLoan ==
    /\ [](\A i, j \in 1..Len(outbox) :
            outbox[i].loanID = outbox[j].loanID => i = j)
    /\ [](\A i \in 1..Len(outbox) :
            /\ Range(outbox[i].emails) = InvestorsOf(outbox[i].loanID)
            /\ Cardinality(Range(outbox[i].emails)) = Len(outbox[i].emails))
    /\ [][outbox' # outbox =>
            \E t \in Threads :
               /\ Steps(t, "invest", "notify")
               /\ call[t].loan[1].state = StateInvested
               /\ Len(outbox') = Len(outbox) + 1
               /\ outbox'[Len(outbox')].loanID = call[t].id]_vars
    /\ [][\A t \in Threads :
            (Steps(t, "invest", "insert") /\ call'[t].pc = "done")
              => outbox' = outbox]_vars

\* C12: when a send of the notification fails, investInLoan returns the
\* failure to its caller, and the request's investment and the loan row stay
\* as they were persisted.
C12_NotificationFailureSurfaced ==
    [][\A t \in Threads :
         (/\ Steps(t, "invest", "notify")
          /\ outbox'[Len(outbox')].sent < Len(call[t].emails))
         => /\ call'[t].pc = "done"
            /\ call'[t].res = "NotificationFailure"
            /\ call'[t].inv = call[t].inv
            /\ loans' = loans
            /\ investments' = investments
            /\ investments'[call[t].inv].loanID = call[t].id]_vars

C12_Witness ==
    \E t \in Threads :
        /\ Returned(t, "invest") /\ call[t].res = "NotificationFailure"
        /\ loans[call[t].id].state = StateInvested
        /\ investments[call[t].inv].loanID = call[t].id
        /\ Total(call[t].id) = loans[call[t].id].principal

\* C13: in every reachable state a loan holds approval evidence exactly when
\* its state is approved, invested or disbursed, and disbursement evidence
\* exactly when its state is disbursed.
C13_EvidenceMatchesState ==
    \A id \in Persisted :
        /\ loans[id].approval # Nil
             <=> loans[id].state
                   \in {StateApproved, StateInvested, StateDisbursed}
        /\ loans[id].disbursement # Nil <=> loans[id].state = StateDisbursed

C13_Witness ==
    \E id \in Persisted :
        /\ loans[id].state = StateDisbursed
        /\ loans[id].approval # Nil /\ loans[id].disbursement # Nil
        /\ loans[id].approval # loans[id].disbursement

Lifecycle ==
    <<StateProposed, StateApproved, StateInvested, StateDisbursed>>

\* C14: the states a loan's row has held were first reached in the order
\* proposed, approved, invested, disbursed with none left out, so a disbursed
\* loan was approved and then invested before; approveLoan and disburseLoan
\* never write state invested, only the promotion of investInLoan does.
C14_NoStateSkipped ==
    /\ [](\A id \in Persisted :
            /\ visited[id] = SubSeq(Lifecycle, 1, Len(visited[id]))
            /\ loans[id].state \in Range(visited[id]))
    /\ [][\A t \in Threads :
            /\ (Steps(t, "approve", "update") \/ Steps(t, "disburse", "update"))
                 => loans'[call[t].id].state # StateInvested
            /\ \A id \in Persisted :
                 (loans'[id].state = StateInvested
                  /\ loans[id].state # StateInvested)
                 => \E u \in Threads :
                       Steps(u, "invest", "update") /\ call[u].id = id]_vars

C14_Witness ==
    \E id \in Persisted :
        /\ visited[id] = Lifecycle
        /\ loans[id].state = StateDisbursed
\* C15: createLoan appends one loan in state proposed, with no approval and
\* no disbursement evidence, whose id differs from the id of every loan
\* created before; the loans created before stay as they are.
C15_CreateProposedFreshID ==
    [][Len(loans') # Len(loans) =>
         LET l == loans'[Len(loans')] IN
         /\ Len(loans') = Len(loans) + 1
         /\ l.state = StateProposed
         /\ l.approval = Nil /\ l.disbursement = Nil
         /\ \A i \in Persisted : loans'[i] = loans[i] /\ loans[i].id # l.id
         /\ investments' = investments]_vars

C15_Witness ==
    /\ Len(loans) = 2
    /\ loans[1].id # loans[2].id
    /\ loans[1].state = StateApproved
    /\ loans[2].state = StateProposed
    /\ loans[2].approval = Nil /\ loans[2].disbursement = Nil

\* Request t reads the loan of its id and the read does not fail in storage.
Loads(t, op) ==
    /\ call[t].op = op /\ call[t].pc = "load"
    /\ call'[t] # call[t]
    /\ faults' = faults

\* C16: approveLoan, investInLoan, disburseLoan and getLoanSummary on an id
\* no loan has fail with NotFound and change no loan and no investment.
C16_UnknownLoanNotFound ==
    [][\A t \in Threads : \A op \in {"approve", "invest", "disburse", "get"} :
         (Loads(t, op) /\ call[t].id \notin Persisted) =>
            /\ call'[t].pc = "done"
            /\ call'[t].res = "NotFound"
            /\ loans' = loans
            /\ investments' = investments]_vars

C16_Witness ==
    \E t, u \in Threads :
        /\ Returned(t, "invest") /\ call[t].res = "NotFound"
        /\ Returned(u, "get") /\ call[u].res = "NotFound"
        /\ call[t].id \notin Persisted /\ call[u].id \notin Persisted
        /\ loans # <<>>

\* C17: approveLoan and disburseLoan with a staff id of fewer than 3
\* characters (the empty one included) fail with InvalidEvidence in whatever
\* state the loan is: no such request gets to the usecase, no such id is
\* persisted as evidence, and the rejection writes nothing.
C17_ShortStaffIDRejected ==
    /\ [](\A t \in Threads :
            /\ call[t].ev # Nil => Len(call[t].ev[1].employee) >= 3
            /\ (call[t].form # Nil /\ Len(call[t].form[1].employee) < 3)
                 => /\ call[t].op \in {"approve", "disburse"}
                    /\ call[t].pc = "done"
                    /\ call[t].res = "InvalidEvidence")
    /\ [](\A id \in Persisted :
            /\ loans[id].approval # Nil
                 => Len(loans[id].approval[1].employee) >= 3
            /\ loans[id].disbursement # Nil
                 => Len(loans[id].disbursement[1].employee) >= 3)
    /\ [][\A t \in Threads :
            (call'[t] # call[t] /\ call'[t].res = "InvalidEvidence")
              => /\ loans' = loans
                 /\ investments' = investments]_vars

C17_Witness ==
    \E t \in Threads :
        /\ Returned(t, "disburse") /\ call[t].res = "InvalidEvidence"
        /\ call[t].form[1].employee = <<>>
        /\ call[t].id \in Persisted
        /\ loans[call[t].id].state = StateInvested
        /\ loans[call[t].id].disbursement = Nil

\* The ids of the loans a filter selects, the newest (highest id) first, and
\* of these the window the offset and the limit cut out.
Selected(filter) ==
    {id \in Persisted :
       /\ filter.state = Nil \/ loans[id].state = filter.state[1]
       /\ filter.borrower = Nil \/ loans[id].borrower = filter.borrower[1]}

NewestFirst(ids) ==
    [k \in 1..Cardinality(ids) |->
       CHOOSE id \in ids : Cardinality({j \in ids : j > id}) = k - 1]

Window(ids, filter) ==
    LET all == NewestFirst(ids)
        from == IF filter.offset = Nil THEN 0 ELSE filter.offset[1]
        upto == IF filter.limit = Nil THEN Len(all)
                ELSE from + filter.limit[1]
    IN [k \in 1..((IF upto > Len(all) THEN Len(all) ELSE upto) - from)
          |-> all[from + k]]

Max0(n) == IF n > 0 THEN n ELSE 0

\* C18: getLoanSummary and listLoans write no loan and no investment, and
\* what they return is determined by the persisted state and the arguments
\* alone, so that a repeated call against the same persisted state returns
\* the same result.
C18_ReadsChangeNothing ==
    [][\A t \in Threads :
         /\ (call[t].op = "get" /\ call'[t] # call[t]
             /\ call[t].pc \in {"load", "list"})
              => loans' = loans /\ investments' = investments
         /\ (call'[t] # call[t] /\ call'[t].op = "list") =>
              LET f == call'[t].filter[1] IN
              /\ loans' = loans /\ investments' = investments
              /\ call'[t].pc = "done"
              /\ IF f.limit = Nil /\ f.offset # Nil
                 THEN call'[t].res = "PersistenceFailure"
                 ELSE /\ call'[t].res = "Success"
                      /\ call'[t].out = Window(Selected(f), f)
         /\ (/\ call[t].op = "get" /\ call[t].pc = "list"
             /\ call'[t] # call[t] /\ faults' = faults
             /\ call[t].loan[1] = loans[call[t].id]) =>
              LET l == loans[call[t].id] IN
              /\ call'[t].res = "Success"
              /\ call'[t].out =
                   <<[state |-> l.state, principal |-> l.principal,
                      totalInvested |-> Total(l.id),
                      remainingAmount |-> Max0(l.principal - Total(l.id)),
                      investmentCount |->
                          Cardinality({i \in 1..Len(investments) :
                                         investments[i].loanID = l.id})]>>
       ]_vars

C18_Witness ==
    \E t, u \in Threads :
        /\ Returned(t, "list") /\ call[t].res = "Success"
        /\ call[t].out = <<1>> /\ call[t].filter[1].state # Nil
        /\ Returned(u, "get") /\ call[u].res = "Success"
        /\ call[u].out[1].investmentCount = 0
        /\ call[u].out[1].state = StateApproved
        /\ call[u].out[1].remainingAmount = loans[1].principal

\* C19: getLoanSummary returns as totalInvested the sum of the loan's
\* persisted investments, as investmentCount their number and as
\* remainingAmount the greater of 0 and principal - totalInvested, so that
\* the two add up to the principal whenever the total does not exceed it.
C19_SummaryTotals ==
    [][\A t \in Threads :
         (/\ call[t].op = "get" /\ call[t].pc = "list"
          /\ call'[t] # call[t] /\ faults' = faults) =>
            LET o == call'[t].out[1]
                id == call[t].id
                mine == {i \in 1..Len(investments) :
                           investments[i].loanID = id}
            IN /\ o.totalInvested = Total(id)
               /\ o.investmentCount = Cardinality(mine)
               /\ o.remainingAmount >= 0
               /\ o.remainingAmount >= loans[id].principal - o.totalInvested
               /\ o.remainingAmount = 0
                    \/ o.remainingAmount
                         = loans[id].principal - o.totalInvested
               /\ o.totalInvested <= loans[id].principal
                    => o.totalInvested + o.remainingAmount
                         = loans[id].principal]_vars

C19_Witness ==
    \E t \in Threads :
        /\ Returned(t, "get") /\ call[t].res = "Success"
        /\ call[t].out[1].investmentCount = 1
        /\ call[t].out[1].totalInvested = 1
        /\ call[t].out[1].remainingAmount = 1
        /\ call[t].out[1].principal = 2

InFlight ==
    {"load", "total", "insert", "update", "recipients", "notify", "list"}

\* The next step of request t.
Step(t) ==
    \/ ApproveLoad(t) \/ DisburseLoad(t) \/ UpdateLoan(t)
    \/ InvestLoad(t) \/ InvestTotal(t) \/ InvestInsert(t)
    \/ InvestRecipients(t) \/ InvestNotify(t)
    \/ GetLoad(t) \/ GetList(t)

\* C20: a step of an operation on one loan changes no other loan's row and
\* adds no investment to another loan, and while operations on two different
\* loans are in progress each of them can take its next step.
C20_OtherLoansUntouched ==
    /\ [][\A t \in Threads :
            (call[t].pc \in InFlight /\ call'[t] # call[t]) =>
               /\ Len(loans') = Len(loans)
               /\ \A id \in Persisted \ {call[t].id} : loans'[id] = loans[id]
               /\ Len(investments') >= Len(investments)
               /\ \A i \in 1..Len(investments') :
                    IF i <= Len(investments)
                    THEN investments'[i] = investments[i]
                    ELSE investments'[i].loanID = call[t].id]_vars
    /\ [](\A t, u \in Threads :
            (/\ call[t].pc \in InFlight /\ call[u].pc \in InFlight
             /\ call[t].id # call[u].id)
            => ENABLED Step(t))

C20_Witness ==
    \E t, u \in Threads :
        /\ call[t].pc = "update" /\ call[t].op = "approve"
        /\ call[t].id = 1
        /\ Returned(u, "approve") /\ call[u].res = "Success"
        /\ call[u].id = 2
        /\ loans[2].state = StateApproved
        /\ loans[1].state = StateProposed

\* C21: the investment ledger is append-only: every step leaves each
\* persisted investment as it is (same id, loan, investor and amount) and at
\* most adds investments after them.
C21_LedgerAppendOnly ==
    [][/\ Len(investments') >= Len(investments)
       /\ \A i \in 1..Len(investments) : investments'[i] = investments[i]
       /\ \A id \in Persisted :
            {i \in 1..Len(investments) : investments[i].loanID = id}
              \subseteq {i \in 1..Len(investments') :
                           investments'[i].loanID = id}]_vars

C21_Witness ==
    /\ Len(investments) = 2
    /\ investments[1].loanID = investments[2].loanID
    /\ investments[1].investor = investments[2].investor
    /\ investments[1].amount = 1 /\ investments[2].amount = 1

\* The Go scheduler runs every handler goroutine, and no step of a request
\* waits for another request: a request that can take its next step
\* eventually takes it.
NextFair ==
    \/ CreateLoanUpTo(MaxLoans)
    \/ \E t \in Threads : StartApproveOn(t, LoanIDs, MaxCalls - 1)
    \/ \E t \in Threads : StartInvestOn(t, LoanIDs, MaxCalls - 1)
    \/ \E t \in Threads : StartDisburseOn(t, LoanIDs, MaxCalls - 1)
    \/ \E t \in Threads : ApproveLoad(t)
    \/ \E t \in Threads : DisburseLoad(t)
    \/ \E t \in Threads : UpdateLoan(t)
    \/ \E t \in Threads : InvestLoad(t)
    \/ \E t \in Threads : InvestTotal(t)
    \/ \E t \in Threads : InvestInsert(t)
    \/ \E t \in Threads : InvestRecipients(t)
    \/ \E t \in Threads : InvestNotify(t)
    \/ \E t \in Threads : StorageFault(t)

FairSpec == Init /\ [][NextFair]_vars /\ \A t \in Threads : WF_vars(Step(t))

\* C22: under fair scheduling every approveLoan, investInLoan and
\* disburseLoan request in progress eventually returns, with a success or an
\* error, whatever the other request does.
C22_EveryRequestReturns ==
    \A t \in Threads :
        (call[t].op \in {"approve", "invest", "disburse"}
         /\ call[t].pc \in InFlight)
        ~> (call[t].pc = "done" /\ call[t].res # "none")

C22_Witness ==
    \E t, u \in Threads :
        /\ Returned(t, "approve") /\ call[t].res = "Success"
        /\ call[u].op = "approve" /\ call[u].pc = "update"
        /\ call[u].id = call[t].id
        /\ loans[call[u].id].state = StateApproved

\* C23: the approve and the disburse endpoint accept a date written in the
\* RFC3339 format: a staff form with a well-formed employee id is rejected
\* only when its date is not in that format.
C23_RFC3339DateAccepted ==
    \A t \in Threads :
        (/\ call[t].op \in {"approve", "disburse"}
         /\ call[t].res = "InvalidEvidence"
         /\ call[t].form # Nil
         /\ Len(call[t].form[1].employee) >= MinEmployeeIDLen)
        => call[t].form[1].date.layout # LayoutRFC3339

\* C24: the admission check accepts an investment exactly when its amount is
\* greater than zero and the total already invested plus the amount is at
\* most the principal: an amount equal to the remaining headroom is accepted,
\* an amount of zero or less is rejected with NonPositiveAmount, an amount
\* above the headroom with OverfundingRejected.
C24_AdmissionCheck ==
    [][\A t \in Threads :
         (call[t].op = "invest" /\ call[t].pc = "total" /\ call'[t] # call[t])
         => LET a == call[t].amount
                p == call[t].loan[1].principal
                cur == Total(call[t].id) IN
            /\ call'[t].pc = "insert" <=> (a > 0 /\ cur + a <= p)
            /\ (a > 0 /\ a = p - cur) => call'[t].pc = "insert"
            /\ a <= 0 => /\ call'[t].pc = "done"
                         /\ call'[t].res = "NonPositiveAmount"
            /\ (a > 0 /\ cur + a > p)
                 => /\ call'[t].pc = "done"
                    /\ call'[t].res = "OverfundingRejected"]_vars

C24_Witness ==
    \E t \in Threads :
        /\ call[t].op = "invest" /\ call[t].pc = "insert"
        /\ call[t].total > 0
        /\ call[t].total + call[t].amount = call[t].loan[1].principal
        /\ Total(call[t].id) = call[t].total

\* C25: a disbursed loan is terminal: every approveLoan, investInLoan and
\* disburseLoan that loads it fails, and no step changes its row (state and
\* evidence) or its investments again.
C25_DisbursedTerminal ==
    /\ [][\A id \in Persisted :
            loans[id].state = StateDisbursed
            => /\ loans'[id] = loans[id]
               /\ GetByLoanID(id)' = GetByLoanID(id)]_vars
    /\ [][\A t \in Threads :
            (/\ call[t].pc = "load" /\ call'[t] # call[t]
             /\ call[t].op \in {"approve", "invest", "disburse"}
             /\ call[t].id \in Persisted
             /\ loans[call[t].id].state = StateDisbursed)
            => /\ call'[t].pc = "done"
               /\ call'[t].res \notin {"none", "Success"}]_vars

\* C26: for every combination of the optional filter fields state, borrower,
\* limit and offset, listLoans succeeds and returns exactly the loans that
\* match the filters given, the newest first, without the first offset of
\* them and at most limit of them.
C26_ListEveryFilter ==
    [][\A t \in Threads :
         (call'[t] # call[t] /\ call'[t].op = "list")
         => /\ call'[t].res = "Success"
            /\ call'[t].out =
                 Window(Selected(call'[t].filter[1]), call'[t].filter[1])]_vars

\* C27: every persisted loan has a principal above zero, a rate above zero
\* and at most 100 and an ROI above zero and at most 100, and a create
\* request that violates one of these is rejected and persists no loan.
C27_LoanTermsInRange ==
    /\ [](\A id \in Persisted :
            /\ loans[id].principal > 0
            /\ loans[id].rate > 0 /\ loans[id].rate <= 100
            /\ loans[id].roi > 0 /\ loans[id].roi <= 100)
    /\ [][\A t \in Threads :
            (call'[t] # call[t] /\ call'[t].op = "create")
            => LET req == call'[t].form[1] IN
               (\/ req.principal <= 0
                \/ req.rate <= 0 \/ req.rate > 100
                \/ req.roi <= 0 \/ req.roi > 100)
               => /\ call'[t].res = "BadRequest"
                  /\ loans' = loans]_vars

C27_Witness ==
    \E t \in Threads :
        /\ Returned(t, "create") /\ call[t].res = "BadRequest"
        /\ call[t].form[1].rate = 101
        /\ Len(loans) = 1
        /\ loans[1].rate = 100 /\ loans[1].roi = 100
        /\ loans[1].state = StateInvested

\* C28: a loan's state and its ledger agree, at the latest when no request on
\* the loan is in progress: a proposed loan has no investment, an approved
\* loan's investments sum to less than its principal, an invested or
\* disbursed loan's investments sum to exactly its principal.
C28_StateMatchesLedger ==
    \A id \in Persisted :
        (\A t \in Threads : call[t].pc \in InFlight => call[t].id # id) =>
        /\ loans[id].state = StateProposed => GetByLoanID(id) = <<>>
        /\ loans[id].state = StateApproved => Total(id) < loans[id].principal
        /\ loans[id].state \in {StateInvested, StateDisbursed}
             => Total(id) = loans[id].principal

\* C29: when investInLoan requests that run concurrently are all accepted
\* and together bring the loan's total exactly to its principal, then once
\* all of them have returned the loan is invested (or already disbursed):
\* the promotion is not lost.
C29_PromotionNotLost ==
    \A t, u \in Threads :
        (/\ t # u
         /\ Returned(t, "invest") /\ Returned(u, "invest")
         /\ call[t].res \in {"Success", "NotificationFailure"}
         /\ call[u].res \in {"Success", "NotificationFailure"}
         /\ call[t].id = call[u].id
         /\ Len(GetByLoanID(call[t].id)) = 2
         /\ Total(call[t].id) = loans[call[t].id].principal)
        => loans[call[t].id].state \in {StateInvested, StateDisbursed}

\* C30: evidence is stable once persisted, under any interleaving: no step
\* changes or removes the approval evidence or the disbursement evidence a
\* loan's row holds, a stale whole-record update of a concurrent request
\* included.
C30_EvidenceStable ==
    [][\A id \in Persisted :
         /\ loans[id].approval # Nil => loans'[id].approval = loans[id].approval
         /\ loans[id].disbursement # Nil
              => loans'[id].disbursement = loans[id].disbursement]_vars

\* C31: no investment is accepted for a loan in invested state: an
\* investInLoan request that loaded the loan invested never gets past the
\* overfunding check, and no step adds to, removes from or changes the
\* investments of a loan whose persisted state is invested.
C31_InvestedLedgerFrozen ==
    /\ [][\A t \in Threads :
            (/\ call[t].op = "invest" /\ call[t].pc = "total"
             /\ call[t].loan[1].state = StateInvested)
            => call'[t].pc # "insert"]_vars
    /\ [][\A id \in Persisted :
            loans[id].state = StateInvested
            => GetByLoanID(id)' = GetByLoanID(id)]_vars

\* The paths under which the staff request t may have stored its file.
PathsOf(t) ==
    {FilePath(call[t].id,
              IF call[t].op = "approve" THEN "proof_pictures"
              ELSE "signed_agreements", now) : now \in Times}

\* C32: an approveLoan or disburseLoan request that is rejected because the
\* loan does not exist or is not in the required state leaves no side effect:
\* the loans and the investments are as before, and the file store holds no
\* evidence file of the rejected request.
C32_RejectionLeavesNoFile ==
    [][\A t \in Threads :
         (/\ call[t].op \in {"approve", "disburse"} /\ call[t].pc = "load"
          /\ call'[t].pc = "done"
          /\ call'[t].res \in {"NotFound", "InvalidTransition"})
         => /\ loans' = loans /\ investments' = investments
            /\ PathsOf(t) \cap uploads' = {}]_vars
=============================================================================
